---- MODULE Spec2Model ----
(***************************************************************************)
(* A model of the floyd consensus core: the replica state kept by          *)
(* FloydContext (floyd/src/floyd_context.cc), the FileLog store it writes   *)
(* through, and the election timer of Floyd (floyd/src/floyd.cc).          *)
(*                                                                         *)
(* Every replica is a record `node[r]` holding the fields of its           *)
(* FloydContext together with the contents of its FileLog (the entries and *)
(* the persisted metadata).  Each method of FloydContext is an operator    *)
(* from such a record to the record after the call (and the values the     *)
(* call returns), written statement by statement from the source.          *)
(***************************************************************************)
EXTENDS Integers, Sequences, FiniteSets, TLC

\* ------------------------------------------------------------------ bounds
MaxTerm == 2        \* terms are explored up to this value
MaxLogLen == 2      \* logs are explored up to this length
MaxQuorum == 3      \* vote_quorum_ is explored up to this value
MaxTimeouts == 2    \* election timers of the cluster expire this often at most
MaxElectTimeout == 6    \* options_.elect_timeout_ms is explored up to this value
MaxRand == 20       \* rand() is explored up to this value

\* ------------------------------------------------------- configuration
\* options_.members: the fixed member set; members.size() is its cardinality
members == {1, 2, 3}

\* options_.local_ip and options_.local_port of replica r
local_ip(r) == <<"a", "b", "c">>[r]

local_port(r) == r

kFollower == "kFollower"

kCandidate == "kCandidate"

kLeader == "kLeader"

Terms == 0..MaxTerm

Min(a, b) == IF a < b THEN a ELSE b

\* ------------------------------------------------------------ FileLog
\* An Entry carries its term and an opaque command; its index is its
\* position in the log (indices are 1-based and dense).
Entry(t, c) == [term |-> t, command |-> c]

GetLastLogIndex(n) == Len(n.log)

\* (0, 0) when the log is empty
GetLastLogTerm(n) == IF Len(n.log) = 0 THEN 0 ELSE n.log[Len(n.log)].term

\* the term of the entry GetEntry yields: a default Entry (term 0) when
\* there is no entry at that index
GetEntryTerm(n, index) ==
    IF index \in 1..Len(n.log) THEN n.log[index].term ELSE 0

TruncateSuffix(n, last_kept_index) ==
    [n EXCEPT !.log = SubSeq(n.log, 1, last_kept_index)]

LogAppend(n, entries) == [n EXCEPT !.log = n.log \o entries]

UpdateMetadata(n, current_term, voted_for_ip, voted_for_port) ==
    [n EXCEPT !.meta = [current_term |-> current_term,
                        voted_for_ip |-> voted_for_ip,
                        voted_for_port |-> voted_for_port]]

\* ------------------------------------------------------- FloydContext
\* the state the constructor leaves, over an empty FileLog
NewContext ==
    [current_term_ |-> 0, role_ |-> kFollower,
     voted_for_ip_ |-> "", voted_for_port_ |-> 0,
     leader_ip_ |-> "", leader_port_ |-> 0,
     vote_quorum_ |-> 0, commit_index_ |-> 0,
     log |-> << >>,
     meta |-> [current_term |-> 0, voted_for_ip |-> "", voted_for_port |-> 0]]

\* a variant that persists the term and leaves the persisted vote as it was
LogApplyTermOnly(n) ==
    UpdateMetadata(n, n.current_term_, n.meta.voted_for_ip, n.meta.voted_for_port)

LogApply(n) ==
    UpdateMetadata(n, n.current_term_, n.voted_for_ip_, n.voted_for_port_)

RecoverInit(n) ==
    [n EXCEPT !.current_term_ = n.meta.current_term,
              !.voted_for_ip_ = n.meta.voted_for_ip,
              !.voted_for_port_ = n.meta.voted_for_port,
              !.role_ = kFollower]

\* line 41, on the value rnd that rand() returned
GetElectLeaderTimeout(elect_timeout_ms, rnd) ==
    (rnd % (elect_timeout_ms * 2)) + elect_timeout_ms

BecomeFollower(n, new_term, leader_ip, leader_port) ==
    IF n.current_term_ > new_term THEN n
    ELSE LET n1 == IF n.current_term_ < new_term
                   THEN LogApply([n EXCEPT !.current_term_ = new_term,
                                           !.voted_for_ip_ = "",
                                           !.voted_for_port_ = 0])
                   ELSE n
             n2 == IF leader_ip # "" /\ leader_port # 0
                   THEN [n1 EXCEPT !.leader_ip_ = leader_ip,
                                   !.leader_port_ = leader_port]
                   ELSE n1
         IN [n2 EXCEPT !.role_ = kFollower]

\* r is the replica whose options_ the context holds
BecomeCandidate(n, r) ==
    LogApply([n EXCEPT !.current_term_ = n.current_term_ + 1,
                       !.role_ = kCandidate,
                       !.leader_ip_ = "",
                       !.leader_port_ = 0,
                       !.voted_for_ip_ = local_ip(r),
                       !.voted_for_port_ = local_port(r),
                       !.vote_quorum_ = 1])

BecomeLeader(n, r) ==
    IF n.role_ = kLeader THEN n
    ELSE [n EXCEPT !.role_ = kLeader,
                   !.leader_ip_ = local_ip(r),
                   !.leader_port_ = local_port(r)]

\* a variant of the test that also lets entries of older terms through
CommitTermMatchesOlder(n, index) == GetEntryTerm(n, index) <= n.current_term_

\* the test of line 118 on the entry at the clamped index
CommitTermMatches(n, index) == GetEntryTerm(n, index) = n.current_term_

AdvanceCommitIndex(n, new_commit_index) ==
    IF new_commit_index = 0 THEN [ctx |-> n, ret |-> FALSE]
    ELSE IF n.commit_index_ >= new_commit_index THEN [ctx |-> n, ret |-> FALSE]
    ELSE LET clamped == Min(GetLastLogIndex(n), new_commit_index)
         IN IF CommitTermMatches(n, clamped)
            THEN [ctx |-> [n EXCEPT !.commit_index_ = clamped], ret |-> TRUE]
            ELSE [ctx |-> n, ret |-> FALSE]

\* a variant of the quorum test that is satisfied by exactly half the members
QuorumReachedAtHalf(vote_quorum) == vote_quorum >= Cardinality(members) \div 2

\* VoteAndCheck: the quorum test of line 140, on the incremented count
QuorumReached(vote_quorum) == vote_quorum > Cardinality(members) \div 2

VoteAndCheck(n, vote_term) ==
    IF n.current_term_ # vote_term THEN [ctx |-> n, ret |-> FALSE]
    ELSE [ctx |-> [n EXCEPT !.vote_quorum_ = n.vote_quorum_ + 1],
          ret |-> QuorumReached(n.vote_quorum_ + 1)]

\* RequestVote, lines 162-169: a vote for someone else in this term
VotedForOther(n, term, ip, port) ==
    /\ term = n.current_term_
    /\ n.voted_for_ip_ # ""
    /\ (n.voted_for_ip_ # ip \/ n.voted_for_port_ # port)

\* a variant of the comparison that also turns away a candidate whose last
\* log position equals mine
LogNotUpToDateStrict(n, log_index, log_term) ==
    \/ log_term < GetLastLogTerm(n)
    \/ (log_term = GetLastLogTerm(n) /\ log_index <= GetLastLogIndex(n))

\* RequestVote, lines 174-175: the candidate's log is behind mine
LogNotUpToDate(n, log_index, log_term) ==
    \/ log_term < GetLastLogTerm(n)
    \/ (log_term = GetLastLogTerm(n) /\ log_index < GetLastLogIndex(n))

\* what a call that returns without writing *my_term yields: the
\* out-parameter keeps whatever the caller had in it
Unwritten(n) == [ctx |-> n, ret |-> FALSE, wrote |-> FALSE, my_term |-> 0]

\* wrote: whether the call assigned *my_term; my_term: the value assigned
RequestVote(n, term, ip, port, log_index, log_term) ==
    IF term < n.current_term_ THEN Unwritten(n)
    ELSE IF VotedForOther(n, term, ip, port) THEN Unwritten(n)
    ELSE IF LogNotUpToDate(n, log_index, log_term) THEN Unwritten(n)
    ELSE [ctx |-> LogApply([n EXCEPT !.voted_for_ip_ = ip,
                                     !.voted_for_port_ = port]),
          ret |-> TRUE, wrote |-> TRUE, my_term |-> n.current_term_]

\* AppendEntries, lines 201-202: the consistency check
PrevLogMismatch(n, pre_log_term, pre_log_index) ==
    \/ pre_log_index > GetLastLogIndex(n)
    \/ pre_log_term # GetLastLogTerm(n)

AppendEntries(n, term, pre_log_term, pre_log_index, entries) ==
    IF PrevLogMismatch(n, pre_log_term, pre_log_index) THEN Unwritten(n)
    ELSE LET n1 == IF pre_log_index < GetLastLogIndex(n)
                   THEN TruncateSuffix(n, pre_log_index)
                   ELSE n
             n2 == IF Len(entries) > 0 THEN LogAppend(n1, entries) ELSE n1
         IN [ctx |-> n2, ret |-> TRUE, wrote |-> TRUE, my_term |-> n.current_term_]

\* ------------------------------------------------------------- state
VARIABLES
    node,           \* node[r]: the FloydContext of replica r and its FileLog
    lastCall,       \* the direct call of a FloydContext method that has just
                    \* returned: its arguments and what it returned
    vote_pending,   \* vote_pending[c]: the peer workers of c that are still
                    \* to send the RequestVote of c's election
    replies,        \* RequestVote replies on their way to a candidate
    next_index,     \* next_index[l][p]: the peer worker state of l for p
    match_index,    \* match_index[l][p]
    timeouts,       \* the number of election timer expiries so far
    thread,         \* thread[t]: where thread t stands inside a method of the
                    \* FloydContext of replica 1, and its locals
    window,         \* the calls the threads have made since they were last
                    \* all outside the methods, and the state they started from
    timer           \* elect_timeout_ms, the last value of rand() and the
                    \* timeout GetElectLeaderTimeout made of them

vars == <<node, lastCall, vote_pending, replies, next_index, match_index,
          timeouts, thread, window, timer>>

peerVars == <<vote_pending, replies, next_index, match_index>>

NoArgs == [none |-> 0]

Call(op, r, args, ret, wrote, my_term) ==
    [op |-> op, r |-> r, args |-> args, ret |-> ret, wrote |-> wrote,
     my_term |-> my_term]

NoCall == Call("none", 0, NoArgs, FALSE, FALSE, 0)

\* the threads that call into one FloydContext at the same time
threads == {1, 2}

Idle == [pc |-> "idle", new_term |-> 0, vote_term |-> 0, tmp |-> 0]

\* the values the out-parameter my_term of a peer's RPC handler may hold
\* before it calls RequestVote or AppendEntries
OutTerms == {0, MaxTerm}

Peers(r) == members \ {r}

\* no timeout has been drawn yet
NoTimeout == [elect_timeout_ms |-> 1, rand |-> 0, timeout |-> 0]

\* a call a thread has made in the window: its method and arguments
NoOp == [op |-> "none", term |-> 0, peer |-> 0]

\* more calls than the window keeps track of
Many == [op |-> "many", term |-> 0, peer |-> 0]

\* no thread has made a call since they were last all outside the methods
NoWindow == [base |-> NewContext, calls |-> [t \in threads |-> NoOp]]

InitPeers ==
    /\ vote_pending = [r \in members |-> {}]
    /\ replies = {}
    /\ next_index = [r \in members |-> [p \in Peers(r) |-> 1]]
    /\ match_index = [r \in members |-> [p \in Peers(r) |-> 0]]
    /\ timeouts = 0
    /\ thread = [t \in threads |-> Idle]
    /\ window = NoWindow

Init ==
    /\ node = [r \in members |-> NewContext]
    /\ lastCall = NoCall
    /\ InitPeers
    /\ timer = NoTimeout

\* ----------------------------------------- the methods, called directly
\* Calls of the methods of one FloydContext with arguments of the caller's
\* choosing: the election methods (SpecElection) and the log methods
\* (SpecReplication).
Callee == {1}

\* (last_log_term, last_log_index) pairs a log can have
LogPositions ==
    {<<0, 0>>} \cup {<<t, i>> : t \in 1..MaxTerm, i \in 1..MaxLogLen}

\* entries a caller may hand to AppendEntries
EntryBatches ==
    {<< >>} \cup {<<Entry(t, 1)>> : t \in 1..MaxTerm}
            \cup {<<Entry(t, 1), Entry(u, 1)>> : t \in 1..MaxTerm, u \in 1..MaxTerm}

\* logs a replica holds when the election calls start: what AppendEntries
\* calls on a fresh replica leave (they change no other field)
StartLogs ==
    {<< >>} \cup {[i \in 1..k |-> Entry(1, 1)] : k \in 1..MaxLogLen}
            \cup {[i \in 1..k |-> Entry(IF i = k THEN 2 ELSE 1, 1)] : k \in 1..MaxLogLen}

InitElection ==
    /\ node \in {[r \in members |-> IF r \in Callee
                                    THEN [NewContext EXCEPT !.log = l]
                                    ELSE NewContext] : l \in StartLogs}
    /\ lastCall = NoCall
    /\ InitPeers
    /\ timer = NoTimeout

\* a direct call starts when the caller has taken the result of the one
\* before; it touches neither the peer workers nor the timer
ApiFrame ==
    lastCall = NoCall /\ UNCHANGED <<peerVars, timeouts, thread, window, timer>>

\* the caller takes the result of the call that has just returned
Return ==
    /\ lastCall # NoCall
    /\ lastCall' = NoCall
    /\ UNCHANGED <<node, peerVars, timeouts, thread, window, timer>>

ApiRecoverInit(r) ==
    /\ ApiFrame
    /\ node' = [node EXCEPT ![r] = RecoverInit(node[r])]
    /\ lastCall' = Call("RecoverInit", r, NoArgs, FALSE, FALSE, 0)

ApiBecomeFollower(r) ==
    /\ ApiFrame
    /\ \E new_term \in Terms, l \in {0, 2} :
           LET lip == IF l = 0 THEN "" ELSE local_ip(l)
               lport == IF l = 0 THEN 0 ELSE local_port(l)
           IN /\ node' = [node EXCEPT ![r] = BecomeFollower(node[r], new_term, lip, lport)]
              /\ lastCall' = Call("BecomeFollower", r,
                                         [new_term |-> new_term, leader_ip |-> lip,
                                          leader_port |-> lport], FALSE, FALSE, 0)

ApiBecomeCandidate(r) ==
    /\ ApiFrame
    /\ node[r].current_term_ < MaxTerm
    /\ node' = [node EXCEPT ![r] = BecomeCandidate(node[r], r)]
    /\ lastCall' = Call("BecomeCandidate", r, NoArgs, FALSE, FALSE, 0)

ApiBecomeLeader(r) ==
    /\ ApiFrame
    /\ node' = [node EXCEPT ![r] = BecomeLeader(node[r], r)]
    /\ lastCall' = Call("BecomeLeader", r, NoArgs, FALSE, FALSE, 0)

ApiVoteAndCheck(r) ==
    /\ ApiFrame
    /\ \E vote_term \in Terms :
           LET res == VoteAndCheck(node[r], vote_term)
           IN /\ node[r].vote_quorum_ < MaxQuorum
              /\ node' = [node EXCEPT ![r] = res.ctx]
              /\ lastCall' = Call("VoteAndCheck", r, [vote_term |-> vote_term],
                                         res.ret, FALSE, 0)

ApiRequestVote(r) ==
    /\ ApiFrame
    /\ \E term \in Terms, c \in Peers(r), last \in LogPositions :
           LET res == RequestVote(node[r], term, local_ip(c), local_port(c),
                                  last[2], last[1])
           IN /\ node' = [node EXCEPT ![r] = res.ctx]
              /\ lastCall' = Call("RequestVote", r,
                                         [term |-> term, ip |-> local_ip(c),
                                          port |-> local_port(c), log_index |-> last[2],
                                          log_term |-> last[1]],
                                         res.ret, res.wrote, res.my_term)

ApiAppendEntries(r) ==
    /\ ApiFrame
    /\ \E term \in Terms, pre \in LogPositions, entries \in EntryBatches :
           LET res == AppendEntries(node[r], term, pre[1], pre[2], entries)
           IN /\ pre[2] + Len(entries) <= MaxLogLen
              /\ node' = [node EXCEPT ![r] = res.ctx]
              /\ lastCall' = Call("AppendEntries", r,
                                         [term |-> term, pre_log_term |-> pre[1],
                                          pre_log_index |-> pre[2], entries |-> entries],
                                         res.ret, res.wrote, res.my_term)

ApiAdvanceCommitIndex(r) ==
    /\ ApiFrame
    /\ \E new_commit_index \in 0..(MaxLogLen + 1) :
           LET res == AdvanceCommitIndex(node[r], new_commit_index)
           IN /\ node' = [node EXCEPT ![r] = res.ctx]
              /\ lastCall' = Call("AdvanceCommitIndex", r,
                                         [new_commit_index |-> new_commit_index],
                                         res.ret, FALSE, 0)

NextElection ==
    \E r \in Callee :
        \/ ApiRecoverInit(r)
        \/ ApiBecomeFollower(r)
        \/ ApiBecomeCandidate(r)
        \/ ApiBecomeLeader(r)
        \/ ApiVoteAndCheck(r)
        \/ ApiRequestVote(r)
        \/ Return

SpecElection == InitElection /\ [][NextElection]_vars

NextReplication ==
    \E r \in Callee :
        \/ ApiBecomeFollower(r)
        \/ ApiBecomeCandidate(r)
        \/ ApiBecomeLeader(r)
        \/ ApiAppendEntries(r)
        \/ ApiAdvanceCommitIndex(r)
        \/ Return

SpecReplication == Init /\ [][NextReplication]_vars

\* ------------------------------------------------------- the cluster
\* The replicas of the member set driving each other: the election timer
\* (Floyd::StartNewElection), the peer workers' RequestVote and
\* AppendEntries exchanges, and client writes at a Leader.
Max(a, b) == IF a > b THEN a ELSE b

\* A reply still has an effect on its candidate: a granted one while the
\* candidate is in the term it asked in, any one that carries a higher term.
\* current_term_ only grows here, so the others never have one and are
\* dropped on the spot.
Live(m, nodes) ==
    \/ m.term > nodes[m.to].current_term_
    \/ (m.granted /\ m.sent_term = nodes[m.to].current_term_)

\* The peer workers read vote_pending only in a Candidate and next_index,
\* match_index only in a Leader, and reset them on entering the role: they
\* are kept at their initial value elsewhere.
PeerState(nodes, pending, live, next, match) ==
    /\ vote_pending' = [r \in members |->
                          IF nodes[r].role_ = kCandidate THEN pending[r] ELSE {}]
    /\ replies' = {m \in live : Live(m, nodes)}
    /\ next_index' = [r \in members |->
                        IF nodes[r].role_ = kLeader THEN next[r]
                        ELSE [p \in Peers(r) |-> 1]]
    /\ match_index' = [r \in members |->
                         IF nodes[r].role_ = kLeader THEN match[r]
                         ELSE [p \in Peers(r) |-> 0]]

\* Floyd::StartNewElection: the timer callback of replica r
StartNewElection(r) ==
    /\ node[r].current_term_ < MaxTerm
    /\ timeouts < MaxTimeouts
    /\ timeouts' = timeouts + 1
    /\ UNCHANGED <<thread, window, timer>>
    /\ LET nodes == [node EXCEPT ![r] = BecomeCandidate(node[r], r)]
       IN /\ node' = nodes
          /\ PeerState(nodes, [vote_pending EXCEPT ![r] = Peers(r)], replies,
                       next_index, match_index)
    /\ UNCHANGED lastCall

\* the peer worker of c for p sends the RequestVote of c's election and p
\* answers it
PeerRequestVote(c, p) ==
    /\ p \in vote_pending[c]
    /\ node[c].role_ = kCandidate
    /\ \E my_term \in OutTerms :
        LET res == RequestVote(node[p], node[c].current_term_,
                               local_ip(c), local_port(c),
                               GetLastLogIndex(node[c]), GetLastLogTerm(node[c]))
            nodes == [node EXCEPT ![p] = res.ctx]
            reply == [from |-> p, to |-> c, sent_term |-> node[c].current_term_,
                      granted |-> res.ret,
                      term |-> IF res.wrote THEN res.my_term ELSE my_term]
        IN /\ node' = nodes
           /\ PeerState(nodes, [vote_pending EXCEPT ![c] = @ \ {p}],
                        replies \cup {reply}, next_index, match_index)
    /\ UNCHANGED <<lastCall, timeouts, thread, window, timer>>

\* the peer worker of c takes a RequestVote reply
PeerVoteReply(c) ==
    \E m \in replies :
        /\ m.to = c
        /\ LET n1 == IF m.term > node[c].current_term_
                     THEN BecomeFollower(node[c], m.term, "", 0)
                     ELSE node[c]
               vc == VoteAndCheck(n1, m.sent_term)
               n2 == IF ~m.granted THEN n1
                     ELSE IF vc.ret THEN BecomeLeader(vc.ctx, c)
                     ELSE vc.ctx
               elected == n1.role_ # kLeader /\ n2.role_ = kLeader
               nodes == [node EXCEPT ![c] = n2]
           IN /\ node' = nodes
              /\ PeerState(nodes, vote_pending, replies \ {m},
                    IF elected
                    THEN [next_index EXCEPT ![c] =
                            [p \in Peers(c) |-> GetLastLogIndex(n2) + 1]]
                    ELSE next_index,
                    IF elected
                    THEN [match_index EXCEPT ![c] = [p \in Peers(c) |-> 0]]
                    ELSE match_index)
        /\ UNCHANGED <<lastCall, timeouts, thread, window, timer>>

\* a client hands a command to the Leader l, which appends it to its log
ClientWrite(l) ==
    /\ node[l].role_ = kLeader
    /\ GetLastLogIndex(node[l]) < MaxLogLen
    /\ node' = [node EXCEPT ![l] =
                  LogAppend(node[l], <<Entry(node[l].current_term_, l)>>)]
    /\ UNCHANGED <<lastCall, peerVars, timeouts, thread, window, timer>>

\* the largest N > commit_index that a majority (counting the Leader) has
\* replicated and whose entry is of the Leader's term; 0 when there is none
CommitTarget(n, match) ==
    LET ok == {N \in (n.commit_index_ + 1)..GetLastLogIndex(n) :
                 /\ QuorumReached(Cardinality({p \in DOMAIN match : match[p] >= N}) + 1)
                 /\ n.log[N].term = n.current_term_}
    IN IF ok = {} THEN 0 ELSE CHOOSE N \in ok : \A M \in ok : M <= N

\* the peer worker of the Leader l for f: one AppendEntries exchange
PeerAppendEntries(l, f) ==
    /\ node[l].role_ = kLeader
    /\ f \in Peers(l)
    /\ \E my_term \in OutTerms :
        LET prev == next_index[l][f] - 1
            prev_term == GetEntryTerm(node[l], prev)
            entries == SubSeq(node[l].log, prev + 1, GetLastLogIndex(node[l]))
            res == AppendEntries(node[f], node[l].current_term_, prev_term, prev,
                                 entries)
            reply_term == IF res.wrote THEN res.my_term ELSE my_term
            match == [match_index[l] EXCEPT ![f] = prev + Len(entries)]
            nodes ==
                IF res.ret
                THEN [node EXCEPT
                        ![f] = res.ctx,
                        ![l] = AdvanceCommitIndex(node[l],
                                                  CommitTarget(node[l], match)).ctx]
                ELSE IF reply_term > node[l].current_term_
                THEN [node EXCEPT ![l] = BecomeFollower(node[l], reply_term, "", 0)]
                ELSE node
        IN /\ node' = nodes
           /\ PeerState(nodes, vote_pending, replies,
                 IF res.ret THEN [next_index EXCEPT ![l][f] = match[f] + 1]
                 ELSE IF reply_term > node[l].current_term_ THEN next_index
                 ELSE [next_index EXCEPT ![l][f] = Max(1, @ - 1)],
                 IF res.ret THEN [match_index EXCEPT ![l] = match] ELSE match_index)
    /\ UNCHANGED <<lastCall, timeouts, thread, window, timer>>

Next ==
    \/ \E r \in members : StartNewElection(r)
    \/ \E c \in members : \E p \in Peers(c) : PeerRequestVote(c, p)
    \/ \E c \in members : PeerVoteReply(c)
    \/ \E l \in members : ClientWrite(l)
    \/ \E l \in members : \E f \in Peers(l) : PeerAppendEntries(l, f)

Spec == Init /\ [][Next]_vars

\* ------------------------------------------------- concurrent callers
\* Two threads inside the methods of the FloydContext of one replica.
\* BecomeFollower, BecomeCandidate and VoteAndCheck (like RecoverInit and
\* BecomeLeader) open with `slash::RWLock(&stat_rw_, true);`, a temporary
\* that is destroyed at the end of that statement: the lock is taken and
\* released before the body runs, so the body runs unlocked and its
\* statements interleave with those of the other thread.  RequestVote
\* names its guard (`slash::RWLock l(...)`) and is one step.  RecoverInit
\* runs in Floyd::Start before any other thread exists and is not among
\* the concurrent calls.
Self == CHOOSE r \in Callee : TRUE

ThreadFrame == UNCHANGED <<lastCall, peerVars, timeouts, timer>>

At(t, pc) == thread[t].pc = pc /\ ThreadFrame

\* a step inside a method
Step(t, pc) == At(t, pc) /\ UNCHANGED window

\* thread t enters a method: the window keeps the call, and the state of
\* the replica if it is the first call of the window; a second call of the
\* same thread ends the bookkeeping until the window closes
Enter(t, call) ==
    window' = IF window.calls[t] # NoOp
              THEN [base |-> NewContext, calls |-> [u \in threads |-> Many]]
              ELSE [base |-> IF window = NoWindow THEN node[Self] ELSE window.base,
                    calls |-> [window.calls EXCEPT ![t] = call]]

\* every thread is outside the methods: the window closes
Quiesce ==
    /\ \A t \in threads : thread[t].pc = "idle"
    /\ window # NoWindow
    /\ window' = NoWindow
    /\ ThreadFrame
    /\ UNCHANGED <<node, thread>>

Goto(t, pc) == thread' = [thread EXCEPT ![t].pc = pc]

SetNode(n) == node' = [node EXCEPT ![Self] = n]

\* BecomeFollower(new_term, "", 0) is called
BfCall(t) ==
    /\ At(t, "idle")
    /\ \E new_term \in Terms :
          /\ thread' = [thread EXCEPT ![t] = [Idle EXCEPT !.pc = "bf_stale",
                                                          !.new_term = new_term]]
          /\ Enter(t, [op |-> "BecomeFollower", term |-> new_term, peer |-> 0])
    /\ UNCHANGED node

\* line 51: if (current_term_ > new_term) return;
BfStale(t) ==
    /\ Step(t, "bf_stale")
    /\ IF node[Self].current_term_ > thread[t].new_term
       THEN thread' = [thread EXCEPT ![t] = Idle]
       ELSE Goto(t, "bf_newer")
    /\ UNCHANGED node

\* line 54: if (current_term_ < new_term)
BfNewer(t) ==
    /\ Step(t, "bf_newer")
    /\ IF node[Self].current_term_ < thread[t].new_term
       THEN Goto(t, "bf_term")
       ELSE Goto(t, "bf_role")
    /\ UNCHANGED node

\* line 55: current_term_ = new_term;
BfTerm(t) ==
    /\ Step(t, "bf_term")
    /\ SetNode([node[Self] EXCEPT !.current_term_ = thread[t].new_term])
    /\ Goto(t, "bf_vote")

\* lines 56-57: voted_for_ip_ = ""; voted_for_port_ = 0;
BfVote(t) ==
    /\ Step(t, "bf_vote")
    /\ SetNode([node[Self] EXCEPT !.voted_for_ip_ = "", !.voted_for_port_ = 0])
    /\ Goto(t, "bf_apply")

\* line 58: LogApply();
BfApply(t) ==
    /\ Step(t, "bf_apply")
    /\ SetNode(LogApply(node[Self]))
    /\ Goto(t, "bf_role")

\* lines 60-64 with an empty leader_ip: role_ = Role::kFollower;
BfRole(t) ==
    /\ Step(t, "bf_role")
    /\ SetNode([node[Self] EXCEPT !.role_ = kFollower])
    /\ thread' = [thread EXCEPT ![t] = Idle]

\* BecomeCandidate() is called
BcCall(t) ==
    /\ At(t, "idle")
    /\ node[Self].current_term_ < MaxTerm
    /\ Goto(t, "bc_load")
    /\ Enter(t, [op |-> "BecomeCandidate", term |-> 0, peer |-> 0])
    /\ UNCHANGED node

\* line 83, ++current_term_: the load
BcLoad(t) ==
    /\ Step(t, "bc_load")
    /\ thread' = [thread EXCEPT ![t].pc = "bc_store",
                                ![t].tmp = node[Self].current_term_]
    /\ UNCHANGED node

\* line 83, ++current_term_: the store
BcStore(t) ==
    /\ Step(t, "bc_store")
    /\ SetNode([node[Self] EXCEPT !.current_term_ = thread[t].tmp + 1])
    /\ Goto(t, "bc_role")

\* lines 84-86: role_ = Role::kCandidate; the leader is cleared
BcRole(t) ==
    /\ Step(t, "bc_role")
    /\ SetNode([node[Self] EXCEPT !.role_ = kCandidate,
                                  !.leader_ip_ = "", !.leader_port_ = 0])
    /\ Goto(t, "bc_vote")

\* lines 87-89: the vote for itself; vote_quorum_ = 1;
BcVote(t) ==
    /\ Step(t, "bc_vote")
    /\ SetNode([node[Self] EXCEPT !.voted_for_ip_ = local_ip(Self),
                                  !.voted_for_port_ = local_port(Self),
                                  !.vote_quorum_ = 1])
    /\ Goto(t, "bc_apply")

\* line 90: LogApply();
BcApply(t) ==
    /\ Step(t, "bc_apply")
    /\ SetNode(LogApply(node[Self]))
    /\ thread' = [thread EXCEPT ![t] = Idle]

\* RequestVote from a peer with an empty log: one step under its lock
RvCall(t) ==
    /\ At(t, "idle")
    /\ \E term \in Terms, c \in Peers(Self) :
          /\ SetNode(RequestVote(node[Self], term, local_ip(c), local_port(c),
                                 0, 0).ctx)
          /\ Enter(t, [op |-> "RequestVote", term |-> term, peer |-> c])
    /\ UNCHANGED thread

\* VoteAndCheck(vote_term) is called
VcCall(t) ==
    /\ At(t, "idle")
    /\ node[Self].vote_quorum_ < MaxQuorum
    /\ \E vote_term \in Terms :
          /\ thread' = [thread EXCEPT ![t] = [Idle EXCEPT !.pc = "vc_term",
                                                          !.vote_term = vote_term]]
          /\ Enter(t, [op |-> "VoteAndCheck", term |-> vote_term, peer |-> 0])
    /\ UNCHANGED node

\* line 137: if (current_term_ != vote_term) return false;
VcTerm(t) ==
    /\ Step(t, "vc_term")
    /\ IF node[Self].current_term_ # thread[t].vote_term
       THEN thread' = [thread EXCEPT ![t] = Idle]
       ELSE Goto(t, "vc_load")
    /\ UNCHANGED node

\* line 140, ++vote_quorum_: the load
VcLoad(t) ==
    /\ Step(t, "vc_load")
    /\ thread' = [thread EXCEPT ![t].pc = "vc_store",
                                ![t].tmp = node[Self].vote_quorum_]
    /\ UNCHANGED node

\* line 140, ++vote_quorum_: the store, and the return
VcStore(t) ==
    /\ Step(t, "vc_store")
    /\ SetNode([node[Self] EXCEPT !.vote_quorum_ = thread[t].tmp + 1])
    /\ thread' = [thread EXCEPT ![t] = Idle]

NextThreads ==
    \E t \in threads :
        \/ BfCall(t) \/ BfStale(t) \/ BfNewer(t) \/ BfTerm(t)
        \/ BfVote(t) \/ BfApply(t) \/ BfRole(t)
        \/ BcCall(t) \/ BcLoad(t) \/ BcStore(t) \/ BcRole(t)
        \/ BcVote(t) \/ BcApply(t)
        \/ RvCall(t)
        \/ VcCall(t) \/ VcTerm(t) \/ VcLoad(t) \/ VcStore(t)
        \/ Quiesce

SpecThreads == Init /\ [][NextThreads]_vars

\* ------------------------------------------------- the election timeout
\* GetElectLeaderTimeout on every elect_timeout_ms of the configuration and
\* every value of rand().
InitTimeout ==
    /\ node = [r \in members |-> NewContext]
    /\ lastCall = NoCall
    /\ InitPeers
    /\ timer \in {[NoTimeout EXCEPT !.elect_timeout_ms = T] : T \in 1..MaxElectTimeout}

DrawTimeout ==
    /\ \E rnd \in 0..MaxRand :
          timer' = [timer EXCEPT
                      !.rand = rnd,
                      !.timeout = GetElectLeaderTimeout(timer.elect_timeout_ms, rnd)]
    /\ UNCHANGED <<node, lastCall, peerVars, timeouts, thread, window>>

NextTimeout == DrawTimeout

SpecTimeout == InitTimeout /\ [][NextTimeout]_vars

\* ------------------------------------------------------------ claims
\* C1 (Election Safety): for every term at most one replica is Leader with
\* that current_term; in particular no two replicas are Leader in the same
\* term at the same moment.
C1_ElectionSafety ==
    \A a \in members : \A b \in members :
        (/\ a # b
         /\ node[a].role_ = kLeader
         /\ node[b].role_ = kLeader)
        => node[a].current_term_ # node[b].current_term_

\* C2 (Vote Uniqueness): while current_term keeps its value, voted_for of a
\* replica takes at most one non-empty (ip, port) value: a step that leaves
\* current_term alone never replaces one recorded vote by another.
C2_VoteUniqueness ==
    [][\A r \in members :
         (/\ node'[r].current_term_ = node[r].current_term_
          /\ node[r].voted_for_ip_ # ""
          /\ node'[r].voted_for_ip_ # "")
         => /\ node'[r].voted_for_ip_ = node[r].voted_for_ip_
            /\ node'[r].voted_for_port_ = node[r].voted_for_port_]_vars

\* C3 (Term Monotonicity): current_term of a replica never decreases, under
\* any interleaving of the threads that call BecomeFollower, BecomeCandidate,
\* RequestVote and RecoverInit.
C3_TermMonotonic ==
    [][\A r \in members :
         node'[r].current_term_ >= node[r].current_term_]_vars

\* C4 (Log Matching): if the logs of two replicas hold an entry of the same
\* term at the same index, the two logs are identical up to and including
\* that index.
C4_LogMatching ==
    \A a \in members : \A b \in members :
        \A i \in 1..Min(Len(node[a].log), Len(node[b].log)) :
            node[a].log[i].term = node[b].log[i].term
            => SubSeq(node[a].log, 1, i) = SubSeq(node[b].log, 1, i)

IsPrefix(s, t) == Len(s) <= Len(t) /\ SubSeq(t, 1, Len(s)) = s

\* C5 (Leader Append-Only): a replica whose role is Leader never truncates
\* or overwrites its own log: over any step that leaves it Leader (an
\* AppendEntries it receives included) the log before is a prefix of the
\* log after.
C5_LeaderAppendOnly ==
    [][\A r \in members :
         (node[r].role_ = kLeader /\ node'[r].role_ = kLeader)
         => IsPrefix(node[r].log, node'[r].log)]_vars

\* C6: commit_index after a call of AdvanceCommitIndex is at least
\* commit_index before the call.
C6_CommitMonotonic ==
    [][\A r \in members :
         (lastCall'.op = "AdvanceCommitIndex" /\ lastCall'.r = r)
         => node'[r].commit_index_ >= node[r].commit_index_]_vars

\* C7 (committed entries are never truncated): in every reachable state
\* commit_index is at most the last log index, so no AppendEntries has
\* removed an entry at or below commit_index.
C7_CommitWithinLog ==
    \A r \in members : node[r].commit_index_ <= Len(node[r].log)

\* C8 (current-term commit rule): AdvanceCommitIndex moves commit_index only
\* to an index whose entry has term current_term; when the entry at the
\* clamped target index has another term the call returns false and leaves
\* commit_index alone.
C8_CurrentTermCommit ==
    [][\A r \in members :
         (lastCall'.op = "AdvanceCommitIndex" /\ lastCall'.r = r)
         => LET target == Min(Len(node[r].log), lastCall'.args.new_commit_index)
            IN /\ node'[r].commit_index_ # node[r].commit_index_
                  => /\ node'[r].commit_index_ \in 1..Len(node[r].log)
                     /\ node[r].log[node'[r].commit_index_].term
                          = node[r].current_term_
               /\ (target >= 1 /\ node[r].log[target].term # node[r].current_term_)
                  => /\ ~lastCall'.ret
                     /\ node'[r].commit_index_ = node[r].commit_index_]_vars

\* C8 witness: a Leader has just refused to commit an index above its
\* commit_index because the entry there is of an older term.
C8_Witness ==
    /\ lastCall.op = "AdvanceCommitIndex"
    /\ ~lastCall.ret
    /\ LET n == node[lastCall.r]
           target == Min(Len(n.log), lastCall.args.new_commit_index)
       IN /\ n.role_ = kLeader
          /\ lastCall.args.new_commit_index > n.commit_index_
          /\ target >= 1
          /\ n.log[target].term # n.current_term_

\* C9: RequestVote with term > current_term does what BecomeFollower(term,
\* "", 0) does: afterwards current_term = term and role = Follower; when the
\* vote is denied voted_for is empty and the returned my_term is the new
\* current_term.
C9_HigherTermDemotes ==
    [][\A r \in members :
         (/\ lastCall'.op = "RequestVote" /\ lastCall'.r = r
          /\ lastCall'.args.term > node[r].current_term_)
         => /\ node'[r].current_term_ = lastCall'.args.term
            /\ node'[r].role_ = kFollower
            /\ ~lastCall'.ret
               => /\ node'[r].voted_for_ip_ = ""
                  /\ lastCall'.wrote
                  /\ lastCall'.my_term = node'[r].current_term_]_vars

\* C10 (grant predicate): a RequestVote with term >= current_term from a
\* candidate the replica holds no vote against is granted iff the
\* candidate's last log position is at least the replica's; a grant records
\* the candidate in voted_for and returns current_term, a denial leaves
\* voted_for alone.
C10_GrantPredicate ==
    [][\A r \in members :
         (/\ lastCall'.op = "RequestVote" /\ lastCall'.r = r
          /\ lastCall'.args.term >= node[r].current_term_
          /\ ~(/\ lastCall'.args.term = node[r].current_term_
               /\ node[r].voted_for_ip_ # ""
               /\ <<node[r].voted_for_ip_, node[r].voted_for_port_>>
                    # <<lastCall'.args.ip, lastCall'.args.port>>))
         => LET my_log_index == Len(node[r].log)
                my_log_term == IF my_log_index = 0 THEN 0
                               ELSE node[r].log[my_log_index].term
                a == lastCall'.args
            IN /\ lastCall'.ret <=>
                    \/ a.log_term > my_log_term
                    \/ (a.log_term = my_log_term /\ a.log_index >= my_log_index)
               /\ lastCall'.ret
                  => /\ node'[r].voted_for_ip_ = a.ip
                     /\ node'[r].voted_for_port_ = a.port
                     /\ lastCall'.wrote
                     /\ lastCall'.my_term = node'[r].current_term_
               /\ ~lastCall'.ret
                  => /\ node'[r].voted_for_ip_ = node[r].voted_for_ip_
                     /\ node'[r].voted_for_port_ = node[r].voted_for_port_]_vars

\* C10 witness: a vote has just been granted to a candidate whose last log
\* position equals that of the replica, whose log is not empty.
C10_Witness ==
    /\ lastCall.op = "RequestVote"
    /\ lastCall.ret
    /\ LET n == node[lastCall.r]
       IN /\ Len(n.log) > 0
          /\ lastCall.args.log_index = Len(n.log)
          /\ lastCall.args.log_term = n.log[Len(n.log)].term
          /\ n.voted_for_ip_ = lastCall.args.ip

\* C11 (AppendEntries consistency check): a call with term >= current_term
\* is rejected iff pre_log_index is beyond the last local index or the local
\* entry at pre_log_index has a term other than pre_log_term; a call with
\* pre_log_index = 0 is accepted whatever the local log holds.
C11_ConsistencyCheck ==
    [][\A r \in members :
         (/\ lastCall'.op = "AppendEntries" /\ lastCall'.r = r
          /\ lastCall'.args.term >= node[r].current_term_)
         => LET a == lastCall'.args
            IN ~lastCall'.ret <=>
                 \/ a.pre_log_index > Len(node[r].log)
                 \/ /\ a.pre_log_index \in 1..Len(node[r].log)
                    /\ node[r].log[a.pre_log_index].term # a.pre_log_term]_vars

\* C12: AppendEntries with term < current_term returns false and leaves the
\* log, current_term, role and voted_for as they were.
C12_StaleTermRejected ==
    [][\A r \in members :
         (/\ lastCall'.op = "AppendEntries" /\ lastCall'.r = r
          /\ lastCall'.args.term < node[r].current_term_)
         => /\ ~lastCall'.ret
            /\ node'[r].log = node[r].log
            /\ node'[r].current_term_ = node[r].current_term_
            /\ node'[r].role_ = node[r].role_
            /\ node'[r].voted_for_ip_ = node[r].voted_for_ip_
            /\ node'[r].voted_for_port_ = node[r].voted_for_port_]_vars

\* the persisted Metadata of replica n holds its in-memory voting record
Persisted(n) ==
    /\ n.meta.current_term = n.current_term_
    /\ n.meta.voted_for_ip = n.voted_for_ip_
    /\ n.meta.voted_for_port = n.voted_for_port_

\* C13 (durable voting record): when RequestVote, BecomeFollower or
\* BecomeCandidate returns, the persisted Metadata equals the in-memory
\* current_term and voted_for; a RecoverInit after any such return (a
\* restart) restores exactly the current_term and voted_for the replica
\* had, so a granted vote is not forgotten.
C13_DurableVote ==
    [][\A r \in members :
         lastCall'.r = r
         => /\ lastCall'.op \in {"RequestVote", "BecomeFollower", "BecomeCandidate"}
               => Persisted(node'[r])
            /\ lastCall'.op = "RecoverInit"
               => /\ node'[r].current_term_ = node[r].current_term_
                  /\ node'[r].voted_for_ip_ = node[r].voted_for_ip_
                  /\ node'[r].voted_for_port_ = node[r].voted_for_port_]_vars

\* C13 witness: RecoverInit has just run on a replica that had granted its
\* vote to another candidate, and the vote is still there.
C13_Witness ==
    /\ lastCall.op = "RecoverInit"
    /\ node[lastCall.r].voted_for_ip_ = "b"
    /\ node[lastCall.r].current_term_ > 0
    /\ node[lastCall.r].role_ = kFollower

\* C15 (AppendEntries demotion): a replica that receives AppendEntries with
\* term > current_term, or with term = current_term while it is Candidate,
\* ends the call as Follower with current_term = term.
C15_AppendEntriesDemotes ==
    [][\A r \in members :
         (/\ lastCall'.op = "AppendEntries" /\ lastCall'.r = r
          /\ \/ lastCall'.args.term > node[r].current_term_
             \/ /\ lastCall'.args.term = node[r].current_term_
                /\ node[r].role_ = kCandidate)
         => /\ node'[r].role_ = kFollower
            /\ node'[r].current_term_ = lastCall'.args.term]_vars

\* the (role before, role after) pairs a step may show
AllowedTransitions ==
    {<<kFollower, kFollower>>, <<kFollower, kCandidate>>,
     <<kCandidate, kCandidate>>, <<kCandidate, kLeader>>,
     <<kCandidate, kFollower>>, <<kLeader, kLeader>>, <<kLeader, kFollower>>}

\* C16 (allowed role transitions): over every step the role of a replica
\* changes only along Follower->Candidate, Candidate->Leader,
\* Candidate->Follower and Leader->Follower (or stays); a Leader whose
\* election timer expires does not become Candidate, a Follower does not
\* become Leader.
C16_RoleTransitions ==
    [][\A r \in members :
         <<node[r].role_, node'[r].role_>> \in AllowedTransitions]_vars

\* C17 (VoteAndCheck): with vote_term # current_term the call returns false
\* and leaves vote_quorum alone; otherwise it adds exactly 1 to vote_quorum
\* and returns true iff the new count exceeds members.size() / 2.
\* BecomeCandidate leaves vote_quorum = 1 (the vote for itself), so a
\* Candidate gets its first true on the reply that brings the count of
\* granted replies to members.size() / 2.
C17_VoteAndCheck ==
    [][\A r \in members :
         lastCall'.r = r
         => /\ lastCall'.op = "VoteAndCheck"
               => IF lastCall'.args.vote_term # node[r].current_term_
                  THEN /\ ~lastCall'.ret
                       /\ node'[r].vote_quorum_ = node[r].vote_quorum_
                  ELSE /\ node'[r].vote_quorum_ = node[r].vote_quorum_ + 1
                       /\ lastCall'.ret
                            <=> node'[r].vote_quorum_ > Cardinality(members) \div 2
            /\ lastCall'.op = "BecomeCandidate"
               => node'[r].vote_quorum_ = 1]_vars

\* C17 witness: a Candidate has just counted its first granted reply of the
\* term (one vote besides its own in a cluster of three) and was told it
\* has the majority.
C17_Witness ==
    /\ lastCall.op = "VoteAndCheck"
    /\ lastCall.ret
    /\ LET n == node[lastCall.r]
       IN /\ n.role_ = kCandidate
          /\ n.vote_quorum_ = 2
          /\ lastCall.args.vote_term = n.current_term_

\* C19 (election timeout range): for every elect_timeout_ms = T > 0 and
\* every value of rand(), the timeout GetElectLeaderTimeout returns lies in
\* [T, 2T).
C19_TimeoutRange ==
    timer.timeout > 0
    => /\ timer.elect_timeout_ms <= timer.timeout
       /\ timer.timeout < 2 * timer.elect_timeout_ms

\* what the call does to the replica when it runs alone
Apply(call, n) ==
    CASE call.op = "BecomeFollower" -> BecomeFollower(n, call.term, "", 0)
      [] call.op = "BecomeCandidate" -> BecomeCandidate(n, Self)
      [] call.op = "VoteAndCheck" -> VoteAndCheck(n, call.term).ctx
      [] call.op = "RequestVote" ->
            RequestVote(n, call.term, local_ip(call.peer), local_port(call.peer),
                        0, 0).ctx
      [] OTHER -> n

\* the fields the state lock protects
Election(n) ==
    <<n.role_, n.current_term_, n.voted_for_ip_, n.voted_for_port_, n.vote_quorum_>>

\* C18 (state-lock exclusivity): when two threads have each run one of
\* BecomeFollower, BecomeCandidate, VoteAndCheck and RequestVote at the
\* same time and both have returned, role, current_term, voted_for and
\* vote_quorum are what running the two calls one after the other, in one
\* of the two orders, leaves (no update of current_term or vote_quorum is
\* lost).
C18_Serializable ==
    (/\ \A t \in threads : thread[t].pc = "idle"
     /\ window # NoWindow
     /\ \A t \in threads : window.calls[t] # Many)
    => \E first \in threads : \E second \in threads \ {first} :
          Election(node[Self])
            = Election(Apply(window.calls[second],
                             Apply(window.calls[first], window.base)))

\* replica r holds its own vote
VotedForSelf(n, r) ==
    n.voted_for_ip_ = local_ip(r) /\ n.voted_for_port_ = local_port(r)

\* C20 (self-vote consistency): a replica that is Candidate or Leader and
\* holds its own vote keeps it for as long as it stays Candidate or Leader:
\* it does not grant RequestVote to another candidate in the meantime.
C20_SelfVote ==
    [][\A r \in members :
         (/\ node[r].role_ \in {kCandidate, kLeader}
          /\ VotedForSelf(node[r], r)
          /\ node'[r].role_ \in {kCandidate, kLeader})
         => VotedForSelf(node'[r], r)]_vars

====
